---- MODULE Spec2Model ----
(***************************************************************************)
(* The orthogonal greedy training loop (orthogonal_greedy) driving the     *)
(* energy functional FNM_Elliptic_4th_1d_NBC, in exact rational            *)
(* arithmetic: a real number is a reduced fraction <<numerator,            *)
(* denominator>>, a square root is kept symbolically.  Rounding of         *)
(* floating-point arithmetic is not modelled.                              *)
(***************************************************************************)
EXTENDS Integers, Sequences, FiniteSets, TLC

\* largest number of neurons (snn.num_neurons) a run is started with
MaxNeurons == 3

\* dictionary.geo_dim: the energy functional is one-dimensional
dim == 1

----------------------------------------------------------------------------
(* Collaborators outside the core: quadrature, pde, activation, dictionary *)

\* quadrature.quadpts: the sample points, one coordinate each
quadrature_quadpts == <<0, 1>>

num_quadpts == Len(quadrature_quadpts)

\* the values a quadrature weight and the area are drawn from
WeightValues == {1, 2}
AreaValues == {1, 2}

\* pde.solution: u(x) = x^2 at the quadrature points, with u' and u''
pde_solution == [val |-> <<0, 1>>, grad |-> <<0, 2>>, hess |-> <<2, 2>>]

\* pde.source at the quadrature points: f = u'''' + u = x^2
pde_source == <<0, 1>>

\* the dictionary's candidate set of (w, b) pairs
Candidates == {<<1, 0>>, <<1, 1>>, <<-1, 0>>, <<2, -1>>}

\* activation.activate: relu to the power 2
sigma(t) == IF t > 0 THEN t * t ELSE 0

\* activation.dactivate: derivative of the given order of relu^2
dsigma(t, order) ==
  IF order = 1 THEN (IF t > 0 THEN 2 * t ELSE 0)
  ELSE IF order = 2 THEN (IF t > 0 THEN 2 ELSE 0)
  ELSE 0

----------------------------------------------------------------------------
(* Exact arithmetic *)

Abs(x) == IF x < 0 THEN -x ELSE x

RECURSIVE GCD(_, _)
GCD(a, b) == IF b = 0 THEN a ELSE GCD(b, a % b)

RECURSIVE SumSeq(_)
SumSeq(s) == IF Len(s) = 0 THEN 0 ELSE Head(s) + SumSeq(Tail(s))

RECURSIVE GCDSeq(_)
GCDSeq(s) == IF Len(s) = 0 THEN 0 ELSE GCD(Abs(Head(s)), GCDSeq(Tail(s)))

\* the fraction n/d in lowest terms with a positive denominator
Rat(n, d) ==
  LET g == GCD(Abs(n), Abs(d))
      s == IF d < 0 THEN -1 ELSE 1
  IN  <<s * (n \div g), s * (d \div g)>>

\* p < q for fractions with positive denominators, after cancelling the
\* factors the two denominators share
RatLess(p, q) ==
  LET g == GCD(p[2], q[2])
  IN  p[1] * (q[2] \div g) < q[1] * (p[2] \div g)

\* torch.sqrt of a non-negative fraction, kept symbolically; sqrt(0) = 0
sqrt(q) == IF q[1] = 0 THEN <<0, 1>> ELSE <<"sqrt", q[1], q[2]>>

\* the tensor with the entries of f, all computed
tensor(f) == f \o <<>>

\* a tensor of zeros of the given shape
zeros(rows, cols) == [i \in 1..rows |-> [j \in 1..cols |-> 0]]

\* torch.mm and the transpose
mm(A, B) ==
  tensor([i \in 1..Len(A) |-> tensor([j \in 1..Len(B[1]) |->
     SumSeq([q \in 1..Len(B) |-> A[i][q] * B[q][j]])])])

transpose(A) == [j \in 1..Len(A[1]) |-> [i \in 1..Len(A) |-> A[i][j]]]

\* the matrix without row 1 and column j
Minor(M, j) ==
  [r \in 1..(Len(M) - 1) |-> [c \in 1..(Len(M) - 1) |->
     M[r + 1][IF c < j THEN c ELSE c + 1]]]

RECURSIVE Det(_)
Det(M) ==
  IF Len(M) = 0 THEN 1
  ELSE IF Len(M) = 1 THEN M[1][1]
  ELSE SumSeq([j \in 1..Len(M) |->
         (IF j % 2 = 1 THEN 1 ELSE -1) * M[1][j] * Det(Minor(M, j))])

----------------------------------------------------------------------------
VARIABLES
  pc,                \* position of orthogonal_greedy
  k,                 \* loop index of orthogonal_greedy
  num_epochs,        \* snn.num_neurons
  errl2_record,      \* column of L2 errors
  errh1_record,      \* column of energy-norm errors
  core_mat,          \* num_epochs x num_quadpts
  inner_param,       \* num_epochs x (dim+1)
  outer_param,       \* 1 x num_epochs, as [num, den]: entry i is num[i]/den
  optimal_element,   \* the dictionary's answer of this iteration
  system,            \* (Gk, bk) of this iteration, <<>> once deleted
  snn,               \* the network's parameters (w2, w1, b1)
  shares_storage,    \* whether the network keeps the tensors it is handed
  pre_solution,      \* energy.pre_solution: "_zero" or "snn.forward"
  weights,           \* energy.weights
  area,              \* energy.area
  quadrature_requires_grad,  \* requires_grad of quadrature.quadpts
  self_quadpts,      \* the tensor energy.quadpts is bound to
  self_requires_grad,        \* requires_grad of that tensor
  energy_eval,       \* the scores evaluate returned in the last search
  result,            \* what the caller of orthogonal_greedy holds
  calls,             \* history: the steps executed, in order
  written,           \* history: the iterations that wrote each record entry
  stiffmats,         \* history: the Gk assembled in each iteration
  tracked            \* history: the function update_solution last installed

vars == <<pc, k, num_epochs, errl2_record, errh1_record, core_mat, inner_param,
          outer_param, optimal_element, system, snn, shares_storage,
          pre_solution, weights, area, quadrature_requires_grad, self_quadpts,
          self_requires_grad, energy_eval, result, calls, written, stiffmats, tracked>>

----------------------------------------------------------------------------
(* The shallow network *)

\* a function on the quadrature points: value, gradient and second
\* derivative, as numerators over the common denominator den, in lowest terms
Canon(f) ==
  LET g == GCD(Abs(f.den), GCDSeq(f.val \o f.grad \o f.hess))
      s == IF f.den < 0 THEN -g ELSE g
  IN  [den  |-> f.den \div s,
       val  |-> tensor([q \in 1..Len(f.val) |-> f.val[q] \div s]),
       grad |-> tensor([q \in 1..Len(f.grad) |-> f.grad[q] \div s]),
       hess |-> tensor([q \in 1..Len(f.hess) |-> f.hess[q] \div s])]

\* the input weight and the bias of neuron i as the network sees them now
snn_w1(i) == IF snn.views THEN inner_param[i][1] ELSE snn.w1[i]
snn_b1(i) == IF snn.views THEN inner_param[i][dim + 1] ELSE snn.b1[i]

\* sum_i coef_i * sigma(w_i x + b_i) and its derivatives in x
network(w2, w1, b1) ==
  LET n == Len(w2.num)
      pre(i, q) == w1[i] * quadrature_quadpts[q] + b1[i]
  IN  Canon([den  |-> w2.den,
             val  |-> [q \in 1..num_quadpts |->
                        SumSeq([i \in 1..n |-> w2.num[i] * sigma(pre(i, q))])],
             grad |-> [q \in 1..num_quadpts |->
                        SumSeq([i \in 1..n |->
                           w2.num[i] * w1[i] * dsigma(pre(i, q), 1)])],
             hess |-> [q \in 1..num_quadpts |->
                        SumSeq([i \in 1..n |->
                           w2.num[i] * w1[i] * w1[i] * dsigma(pre(i, q), 2)])]])

\* snn.update_neurons: the network's whole parameter set is replaced, in the
\* network object itself; the network may keep the tensors it is handed (w1
\* and b1 are then views of inner_param) or copies of them
update_neurons(parameters) ==
  [w2 |-> parameters[1], w1 |-> parameters[2], b1 |-> parameters[3],
   views |-> shares_storage]

\* snn.forward on the quadrature points, with the network's present state
forward ==
  network(snn.w2, [i \in 1..Len(snn.w2.num) |-> snn_w1(i)],
                  [i \in 1..Len(snn.w2.num) |-> snn_b1(i)])

----------------------------------------------------------------------------
(* The energy functional FNM_Elliptic_4th_1d_NBC *)

\* _zero: 0 * sin(p), with its derivatives
_zero ==
  [den |-> 1, val |-> [q \in 1..num_quadpts |-> 0],
   grad |-> [q \in 1..num_quadpts |-> 0], hess |-> [q \in 1..num_quadpts |-> 0]]

\* the function pre_solution holds, as a call of it evaluates now
pre_solution_func == IF pre_solution = "snn.forward" THEN forward ELSE _zero

\* pde.solution(p) - u(p) for a function u on the quadrature points
error_of(u) ==
      Canon([den  |-> u.den,
             val  |-> [q \in 1..num_quadpts |->
                        pde_solution.val[q] * u.den - u.val[q]],
             grad |-> [q \in 1..num_quadpts |->
                        pde_solution.grad[q] * u.den - u.grad[q]],
             hess |-> [q \in 1..num_quadpts |->
                        pde_solution.hess[q] * u.den - u.hess[q]]])

\* _get_error: pde.solution(p) - pre_solution(p)
_get_error == error_of(pre_solution_func)

\* _get_energy_items: value, gradient and second derivative of obj_func on
\* the quadrature points (the three detached tensors it returns)
_get_energy_items(obj_func) == <<obj_func.val, obj_func.grad, obj_func.hess>>

\* what _get_energy_items does to the tensors: requires_grad_() acts in place
\* on the tensor energy.quadpts is bound to, which until the first call is
\* quadrature.quadpts itself; detach() then binds energy.quadpts to a new
\* tensor that does not require grad
_get_energy_items_effect ==
  /\ quadrature_requires_grad' =
       (IF self_quadpts = "quadrature.quadpts" THEN TRUE
        ELSE quadrature_requires_grad)
  /\ self_quadpts' = "detached"
  /\ self_requires_grad' = FALSE

\* _energy_norm: (l2_norm, energy_norm) of obj_func
_energy_norm(obj_func) ==
  LET items == _get_energy_items(obj_func)
      d2 == obj_func.den * obj_func.den
      h(item) == SumSeq([q \in 1..num_quadpts |-> item[q] * item[q] * weights[q]])
      l2 == h(items[1])
      energy_norm == SumSeq([i \in 1..Len(items) |-> h(items[i]) * area])
  IN  <<Rat(l2 * area, d2), Rat(energy_norm, d2)>>

\* energy_error: the errors of pre_solution
energy_error == _energy_norm(_get_error)

\* get_stiffmat_and_rhs with mm(v.t(), v) in place of mm(v, v.t())
get_stiffmat_and_rhs_vtv(parameters, core) ==
  LET w == [i \in 1..Len(parameters) |-> <<parameters[i][1]>>]
      v == [i \in 1..Len(w) |-> <<w[i][1] * w[i][1]>>]
      g1 == [i \in 1..Len(core) |-> [q \in 1..num_quadpts |-> sigma(core[i][q])]]
      d2g1 == [i \in 1..Len(core) |-> [q \in 1..num_quadpts |->
                 dsigma(core[i][q], 2)]]
      g2 == [i \in 1..Len(g1) |-> [q \in 1..num_quadpts |-> g1[i][q] * weights[q]]]
      d2g2 == [i \in 1..Len(d2g1) |-> [q \in 1..num_quadpts |->
                 d2g1[i][q] * weights[q]]]
      G == mm(g1, transpose(g2))
      d2 == mm(d2g1, transpose(d2g2))
      vv == mm(transpose(v), v)
      Gk == [i \in 1..Len(core) |-> [j \in 1..Len(core) |->
               d2[i][j] * vv[1][1] * area + G[i][j] * area]]
      f == [q \in 1..num_quadpts |-> <<pde_source[q] * weights[q]>>]
      bk == [i \in 1..Len(core) |-> mm(g1, f)[i][1] * area]
  IN  <<tensor([i \in 1..Len(core) |-> tensor(Gk[i])]), tensor(bk)>>

\* get_stiffmat_and_rhs with g2 = g1 * weights, the transpose left out
get_stiffmat_and_rhs_rowweights(parameters, core) ==
  LET w == [i \in 1..Len(parameters) |-> <<parameters[i][1]>>]
      v == [i \in 1..Len(w) |-> <<w[i][1] * w[i][1]>>]
      g1 == [i \in 1..Len(core) |-> [q \in 1..num_quadpts |-> sigma(core[i][q])]]
      d2g1 == [i \in 1..Len(core) |-> [q \in 1..num_quadpts |->
                 dsigma(core[i][q], 2)]]
      g2 == [i \in 1..Len(g1) |-> [q \in 1..num_quadpts |->
               g1[i][q] * weights[((i - 1) % num_quadpts) + 1]]]
      d2g2 == [i \in 1..Len(d2g1) |-> [q \in 1..num_quadpts |->
                 d2g1[i][q] * weights[q]]]
      G == mm(g1, transpose(g2))
      d2 == mm(d2g1, transpose(d2g2))
      vv == mm(v, transpose(v))
      Gk == [i \in 1..Len(core) |-> [j \in 1..Len(core) |->
               d2[i][j] * vv[i][j] * area + G[i][j] * area]]
      f == [q \in 1..num_quadpts |-> <<pde_source[q] * weights[q]>>]
      bk == [i \in 1..Len(core) |-> mm(g1, f)[i][1] * area]
  IN  <<tensor([i \in 1..Len(core) |-> tensor(Gk[i])]), tensor(bk)>>

\* get_stiffmat_and_rhs: the stiffness matrix and the load vector of the
\* neurons whose parameters and core rows are given
get_stiffmat_and_rhs(parameters, core) ==
  LET w == [i \in 1..Len(parameters) |-> <<parameters[i][1]>>]
      v == [i \in 1..Len(w) |-> <<w[i][1] * w[i][1]>>]
      g1 == [i \in 1..Len(core) |-> [q \in 1..num_quadpts |-> sigma(core[i][q])]]
      d2g1 == [i \in 1..Len(core) |-> [q \in 1..num_quadpts |->
                 dsigma(core[i][q], 2)]]
      g2 == [i \in 1..Len(g1) |-> [q \in 1..num_quadpts |-> g1[i][q] * weights[q]]]
      d2g2 == [i \in 1..Len(d2g1) |-> [q \in 1..num_quadpts |->
                 d2g1[i][q] * weights[q]]]
      G == mm(g1, transpose(g2))
      d2 == mm(d2g1, transpose(d2g2))
      vv == mm(v, transpose(v))
      Gk == [i \in 1..Len(core) |-> [j \in 1..Len(core) |->
               d2[i][j] * vv[i][j] * area + G[i][j] * area]]
      f == [q \in 1..num_quadpts |-> <<pde_source[q] * weights[q]>>]
      bk == [i \in 1..Len(core) |-> mm(g1, f)[i][1] * area]
  IN  <<tensor([i \in 1..Len(core) |-> tensor(Gk[i])]), tensor(bk)>>

\* the pairing (d2ud2g + ug - fg) * area of the candidate param with the
\* residual of the function u
pairing(u, param) ==
  LET items == _get_energy_items(u)
      u_val == items[1]
      u_hess == items[3]
      w == param[1]
      core == [q \in 1..num_quadpts |->
                 param[1] * quadrature_quadpts[q] + param[2]]
      g == [q \in 1..num_quadpts |-> sigma(core[q])]
      d2g == [q \in 1..num_quadpts |-> dsigma(core[q], 2)]
      fg == SumSeq([q \in 1..num_quadpts |-> g[q] * pde_source[q] * weights[q]])
      ug == SumSeq([q \in 1..num_quadpts |-> g[q] * u_val[q] * weights[q]])
      d2ud2g == SumSeq([q \in 1..num_quadpts |->
                   d2g[q] * u_hess[q] * weights[q]]) * w * w
  IN  Rat((d2ud2g + ug - fg * u.den) * area, u.den)

\* the pairing with the residual of pre_solution
residual_pairing(param) == pairing(pre_solution_func, param)

\* evaluate without the minus sign
evaluate_unsigned(param) ==
  LET r == residual_pairing(param)
  IN  Rat(r[1] * r[1], 2 * r[2] * r[2])

\* evaluate: -(1/2) * ((d2ud2g + ug - fg) * area)^2
evaluate(param) ==
  LET r == residual_pairing(param)
  IN  Rat(-(r[1] * r[1]), 2 * r[2] * r[2])

\* update_solution: pre_solution is bound to the callable it is given
update_solution(new_callable) == pre_solution' = new_callable

----------------------------------------------------------------------------
(* orthogonal_greedy *)

\* torch.linalg.solve(Gk, bk) by Cramer's rule, for a nonsingular Gk:
\* coefficient i is num[i]/den
solve(Gk, bk) ==
  LET n == Len(Gk)
      D == Det(Gk)
      replaced(c) == [i \in 1..n |-> [j \in 1..n |->
                        IF j = c THEN bk[i] ELSE Gk[i][j]]]
      nums == [c \in 1..n |-> Det(replaced(c))]
      g == GCD(Abs(D), GCDSeq(nums))
      s == IF D < 0 THEN -g ELSE g
  IN  [num |-> tensor([c \in 1..n |-> nums[c] \div s]), den |-> D \div s]

\* torch.linalg.solve raises on a singular matrix
singular(Gk) == Det(Gk) = 0

\* the steps of one iteration, in the order of the loop body
Steps == <<"energy_error", "find_optimal_element", "append", "get_stiffmat_and_rhs",
           "solve", "update_neurons", "update_solution">>

Init ==
  /\ pc = "for"
  /\ k = -1
  /\ num_epochs \in 0..MaxNeurons
  /\ errl2_record = [i \in 1..num_epochs |-> <<0, 1>>]
  /\ errh1_record = [i \in 1..num_epochs |-> <<0, 1>>]
  /\ core_mat = zeros(num_epochs, num_quadpts)
  /\ inner_param = zeros(num_epochs, dim + 1)
  /\ outer_param = [num |-> [i \in 1..num_epochs |-> 0], den |-> 1]
  /\ optimal_element = <<>>
  /\ system = <<>>
  /\ snn = [w2 |-> [num |-> [i \in 1..num_epochs |-> 0], den |-> 1],
            w1 |-> [i \in 1..num_epochs |-> 0],
            b1 |-> [i \in 1..num_epochs |-> 0],
            views |-> FALSE]
  /\ shares_storage \in BOOLEAN
  /\ pre_solution = "_zero"
  /\ weights \in [1..num_quadpts -> WeightValues]
  /\ area \in AreaValues
  /\ quadrature_requires_grad = FALSE
  /\ self_quadpts = "quadrature.quadpts"
  /\ self_requires_grad = FALSE
  /\ energy_eval = <<>>
  /\ result = [kind |-> "none"]
  /\ calls = <<>>
  /\ written = [l2 |-> [i \in 1..num_epochs |-> <<>>],
                h1 |-> [i \in 1..num_epochs |-> <<>>]]
  /\ stiffmats = <<>>
  /\ tracked = _zero

\* the loop over range(num_epochs - 1)
For_short ==
  /\ pc = "for"
  /\ IF k + 1 < num_epochs - 1
       THEN k' = k + 1 /\ pc' = "energy_error"
       ELSE k' = k /\ pc' = "return"
  /\ UNCHANGED <<num_epochs, errl2_record, errh1_record, core_mat, inner_param,
                 outer_param, optimal_element, system, snn, shares_storage,
                 pre_solution, weights, area, quadrature_requires_grad,
                 self_quadpts, self_requires_grad, energy_eval, result, calls,
                 written, stiffmats, tracked>>

\* for k in range(num_epochs)
For ==
  /\ pc = "for"
  /\ IF k + 1 < num_epochs
       THEN k' = k + 1 /\ pc' = "energy_error"
       ELSE k' = k /\ pc' = "return"
  /\ UNCHANGED <<num_epochs, errl2_record, errh1_record, core_mat, inner_param,
                 outer_param, optimal_element, system, snn, shares_storage,
                 pre_solution, weights, area, quadrature_requires_grad,
                 self_quadpts, self_requires_grad, energy_eval, result, calls,
                 written, stiffmats, tracked>>

\* errors = energy.energy_error(); errl2_record[k], errh1_record[k] = sqrt(...)
RecordError ==
  /\ pc = "energy_error"
  /\ LET errors == energy_error
     IN  /\ errl2_record' = [errl2_record EXCEPT ![k + 1] = sqrt(errors[1])]
         /\ errh1_record' = [errh1_record EXCEPT ![k + 1] = sqrt(errors[2])]
  /\ _get_energy_items_effect
  /\ written' = [l2 |-> [written.l2 EXCEPT ![k + 1] = Append(@, k)],
                 h1 |-> [written.h1 EXCEPT ![k + 1] = Append(@, k)]]
  /\ calls' = Append(calls, <<"energy_error", k>>)
  /\ pc' = "find_optimal_element"
  /\ UNCHANGED <<k, num_epochs, core_mat, inner_param, outer_param,
                 optimal_element, system, snn, shares_storage, pre_solution,
                 weights, area, energy_eval, result, stiffmats, tracked>>

\* dictionary.find_optimal_element: the dictionary scores every candidate
\* with energy.evaluate and answers with one of them
find_optimal_element(scores, p) ==
  /\ scores = [c \in Candidates |-> evaluate(c)]
  /\ p \in Candidates

\* optimal_element = dictionary.find_optimal_element(energy)
FindOptimalElement ==
  /\ pc = "find_optimal_element"
  /\ \E p \in Candidates :
       /\ find_optimal_element(energy_eval', p)
       /\ optimal_element' = p
  /\ _get_energy_items_effect
  /\ calls' = Append(calls, <<"find_optimal_element", k>>)
  /\ pc' = "append"
  /\ UNCHANGED <<k, num_epochs, errl2_record, errh1_record, core_mat,
                 inner_param, outer_param, system, snn, shares_storage,
                 pre_solution, weights, area, result, written, stiffmats, tracked>>

\* Ck = mm(Ak, Bk.t()) with Ak row k of inner_param, Bk = [quadpts, ones]
core_row(Ak) ==
  LET Bk == [q \in 1..num_quadpts |->
               [d \in 1..(dim + 1) |->
                  IF d <= dim THEN quadrature_quadpts[q] ELSE 1]]
  IN  mm(<<Ak>>, transpose(Bk))[1]

\* the append step with core_mat[0:k+1, :] = Ck
AppendRow_broadcast ==
  /\ pc = "append"
  /\ inner_param' = [inner_param EXCEPT ![k + 1] =
                       [d \in 1..(dim + 1) |-> optimal_element[d]]]
  /\ core_mat' = [i \in 1..num_epochs |->
                    IF i <= k + 1 THEN core_row(inner_param'[k + 1])
                    ELSE core_mat[i]]
  /\ calls' = Append(calls, <<"append", k>>)
  /\ pc' = "get_stiffmat_and_rhs"
  /\ UNCHANGED <<k, num_epochs, errl2_record, errh1_record, outer_param,
                 optimal_element, system, snn, shares_storage, pre_solution,
                 weights, area, quadrature_requires_grad, self_quadpts,
                 self_requires_grad, energy_eval, result, written, stiffmats, tracked>>

\* inner_param[k][d] = optimal_element[d]; core_mat[k:k+1, :] = Ck
AppendRow ==
  /\ pc = "append"
  /\ inner_param' = [inner_param EXCEPT ![k + 1] =
                       [d \in 1..(dim + 1) |-> optimal_element[d]]]
  /\ core_mat' = [core_mat EXCEPT ![k + 1] = core_row(inner_param'[k + 1])]
  /\ calls' = Append(calls, <<"append", k>>)
  /\ pc' = "get_stiffmat_and_rhs"
  /\ UNCHANGED <<k, num_epochs, errl2_record, errh1_record, outer_param,
                 optimal_element, system, snn, shares_storage, pre_solution,
                 weights, area, quadrature_requires_grad, self_quadpts,
                 self_requires_grad, energy_eval, result, written, stiffmats, tracked>>

\* system = energy.get_stiffmat_and_rhs(inner_param[0:k+1], core_mat[0:k+1])
Assemble ==
  /\ pc = "get_stiffmat_and_rhs"
  /\ system' = get_stiffmat_and_rhs(SubSeq(inner_param, 1, k + 1),
                                    SubSeq(core_mat, 1, k + 1))
  /\ stiffmats' = Append(stiffmats, system'[1])
  /\ calls' = Append(calls, <<"get_stiffmat_and_rhs", k>>)
  /\ pc' = "solve"
  /\ UNCHANGED <<k, num_epochs, errl2_record, errh1_record, core_mat,
                 inner_param, outer_param, optimal_element, snn, shares_storage,
                 pre_solution, weights, area, quadrature_requires_grad,
                 self_quadpts, self_requires_grad, energy_eval, result, written, tracked>>

\* coef = torch.linalg.solve(Gk, bk); outer_param[:, 0:k+1] = coef; del system
Solve ==
  /\ pc = "solve"
  /\ ~singular(system[1])
  /\ LET coef == solve(system[1], system[2])
     IN  outer_param' = [num |-> [i \in 1..num_epochs |->
                                    IF i <= k + 1 THEN coef.num[i] ELSE 0],
                         den |-> coef.den]
  /\ system' = <<>>
  /\ calls' = Append(calls, <<"solve", k>>)
  /\ pc' = "update_neurons"
  /\ UNCHANGED <<k, num_epochs, errl2_record, errh1_record, core_mat,
                 inner_param, optimal_element, snn, shares_storage,
                 pre_solution, weights, area, quadrature_requires_grad,
                 self_quadpts, self_requires_grad, energy_eval, result, written,
                 stiffmats, tracked>>

\* torch.linalg.solve raises: the exception leaves orthogonal_greedy, whose
\* caller receives no return value
SolveRaises ==
  /\ pc = "solve"
  /\ singular(system[1])
  /\ result' = [kind |-> "exception"]
  /\ calls' = Append(calls, <<"solve", k>>)
  /\ pc' = "raised"
  /\ UNCHANGED <<k, num_epochs, errl2_record, errh1_record, core_mat,
                 inner_param, outer_param, optimal_element, system, snn,
                 shares_storage, pre_solution, weights, area,
                 quadrature_requires_grad, self_quadpts, self_requires_grad,
                 energy_eval, written, stiffmats, tracked>>

\* the network update with the call of update_solution left out
UpdateNeurons_last ==
  /\ pc = "update_neurons"
  /\ LET w1 == [i \in 1..num_epochs |-> inner_param[i][1]]
         b1 == [i \in 1..num_epochs |-> inner_param[i][dim + 1]]
         w2 == outer_param
         parameters == <<w2, w1, b1>>
     IN  snn' = update_neurons(parameters)
  /\ calls' = Append(calls, <<"update_neurons", k>>)
  /\ pc' = "for"
  /\ UNCHANGED <<k, num_epochs, errl2_record, errh1_record, core_mat,
                 inner_param, outer_param, optimal_element, system,
                 shares_storage, pre_solution, weights, area,
                 quadrature_requires_grad, self_quadpts, self_requires_grad,
                 energy_eval, result, written, stiffmats, tracked>>

\* w1, b1 = views of inner_param; w2 = outer_param.clone();
\* snn.update_neurons((w2, w1, b1))
UpdateNeurons ==
  /\ pc = "update_neurons"
  /\ LET w1 == [i \in 1..num_epochs |-> inner_param[i][1]]
         b1 == [i \in 1..num_epochs |-> inner_param[i][dim + 1]]
         w2 == outer_param
         parameters == <<w2, w1, b1>>
     IN  snn' = update_neurons(parameters)
  /\ calls' = Append(calls, <<"update_neurons", k>>)
  /\ pc' = "update_solution"
  /\ UNCHANGED <<k, num_epochs, errl2_record, errh1_record, core_mat,
                 inner_param, outer_param, optimal_element, system,
                 shares_storage, pre_solution, weights, area,
                 quadrature_requires_grad, self_quadpts, self_requires_grad,
                 energy_eval, result, written, stiffmats, tracked>>

\* update_solution handed the callable it already holds
UpdateSolution_stale ==
  /\ pc = "update_solution"
  /\ update_solution(pre_solution)
  /\ tracked' = forward
  /\ calls' = Append(calls, <<"update_solution", k>>)
  /\ pc' = "for"
  /\ UNCHANGED <<k, num_epochs, errl2_record, errh1_record, core_mat,
                 inner_param, outer_param, optimal_element, system, snn,
                 shares_storage, weights, area, quadrature_requires_grad,
                 self_quadpts, self_requires_grad, energy_eval, result, written,
                 stiffmats>>

\* energy.update_solution(snn.forward)
UpdateSolution ==
  /\ pc = "update_solution"
  /\ update_solution("snn.forward")
  /\ tracked' = forward
  /\ calls' = Append(calls, <<"update_solution", k>>)
  /\ pc' = "for"
  /\ UNCHANGED <<k, num_epochs, errl2_record, errh1_record, core_mat,
                 inner_param, outer_param, optimal_element, system, snn,
                 shares_storage, weights, area, quadrature_requires_grad,
                 self_quadpts, self_requires_grad, energy_eval, result, written,
                 stiffmats>>

\* return errl2_record, errh1_record, snn
Return ==
  /\ pc = "return"
  /\ result' = [kind |-> "returned", errl2_record |-> errl2_record,
                errh1_record |-> errh1_record, snn |-> snn]
  /\ pc' = "done"
  /\ UNCHANGED <<k, num_epochs, errl2_record, errh1_record, core_mat,
                 inner_param, outer_param, optimal_element, system, snn,
                 shares_storage, pre_solution, weights, area,
                 quadrature_requires_grad, self_quadpts, self_requires_grad,
                 energy_eval, calls, written, stiffmats, tracked>>

Next ==
  \/ For
  \/ RecordError
  \/ FindOptimalElement
  \/ AppendRow
  \/ Assemble
  \/ Solve
  \/ SolveRaises
  \/ UpdateNeurons
  \/ UpdateSolution
  \/ Return

Spec == Init /\ [][Next]_vars

----------------------------------------------------------------------------
(* get_stiffmat_and_rhs on its own, called with any parameters and core *)

\* largest number of rows handed to get_stiffmat_and_rhs on its own
MaxRows == 2

ParamValues == {<<-1, 0>>, <<2, 1>>}
CoreValues == {-1, 1, 2}

StiffInit ==
  /\ pc = "call"
  /\ k = -1
  /\ num_epochs \in 1..MaxRows
  /\ errl2_record = <<>>
  /\ errh1_record = <<>>
  /\ core_mat \in [1..num_epochs -> [1..num_quadpts -> CoreValues]]
  /\ inner_param \in [1..num_epochs -> ParamValues]
  /\ outer_param = [num |-> <<>>, den |-> 1]
  /\ optimal_element = <<>>
  /\ system = <<>>
  /\ snn = [w2 |-> [num |-> <<>>, den |-> 1], w1 |-> <<>>, b1 |-> <<>>,
            views |-> FALSE]
  /\ shares_storage = FALSE
  /\ pre_solution = "_zero"
  /\ weights \in [1..num_quadpts -> WeightValues]
  /\ area \in AreaValues
  /\ quadrature_requires_grad = FALSE
  /\ self_quadpts = "quadrature.quadpts"
  /\ self_requires_grad = FALSE
  /\ energy_eval = <<>>
  /\ result = [kind |-> "none"]
  /\ calls = <<>>
  /\ written = [l2 |-> <<>>, h1 |-> <<>>]
  /\ stiffmats = <<>>
  /\ tracked = _zero

StiffCall ==
  /\ pc = "call"
  /\ system' = get_stiffmat_and_rhs(inner_param, core_mat)
  /\ pc' = "called"
  /\ UNCHANGED <<k, num_epochs, errl2_record, errh1_record, core_mat,
                 inner_param, outer_param, optimal_element, snn, shares_storage,
                 pre_solution, weights, area, quadrature_requires_grad,
                 self_quadpts, self_requires_grad, energy_eval, result, calls,
                 written, stiffmats, tracked>>

StiffSpec == StiffInit /\ [][StiffCall]_vars

----------------------------------------------------------------------------
(* Properties *)

\* the number of completed iterations
iterations == Cardinality({i \in 1..Len(calls) : calls[i][1] = "update_solution"})

\* C1: a run makes exactly num_neurons iterations, never more, and then
\* returns; at the return both error sequences have length num_neurons, and
\* entry k was written once, in iteration k
C1_IterationsAndRecords ==
  /\ iterations <= num_epochs
  /\ Len(calls) <= Len(Steps) * num_epochs
  /\ pc = "return" => iterations = num_epochs
  /\ \A i \in 1..num_epochs :
       /\ written.l2[i] \in {<<>>, <<i - 1>>}
       /\ written.h1[i] \in {<<>>, <<i - 1>>}
  /\ pc = "done" =>
       /\ iterations = num_epochs
       /\ result.kind = "returned"
       /\ Len(result.errl2_record) = num_epochs
       /\ Len(result.errh1_record) = num_epochs
       /\ \A i \in 1..num_epochs :
            written.l2[i] = <<i - 1>> /\ written.h1[i] = <<i - 1>>

C1_Witness == pc = "done" /\ num_epochs >= 2 /\ iterations = num_epochs

\* C2: the steps of every iteration run in the order of Steps, none skipped
\* or repeated, and iteration k+1 starts after update_solution of iteration k
C2_StepOrder ==
  \A i \in 1..Len(calls) :
    calls[i] = <<Steps[((i - 1) % Len(Steps)) + 1], (i - 1) \div Len(Steps)>>

C2_Witness ==
  /\ Len(calls) > Len(Steps)
  /\ calls[Len(calls)] = <<"energy_error", 1>>

\* C3: a row of inner_param or core_mat changes only in the append step of
\* its own iteration, so rows of earlier iterations keep their values
C3_AppendOnly ==
  [][\A j \in 1..num_epochs :
       (inner_param'[j] # inner_param[j] \/ core_mat'[j] # core_mat[j])
         => (pc = "append" /\ j = k + 1)]_vars

C3_Witness ==
  /\ pc = "get_stiffmat_and_rhs"
  /\ k = 1
  /\ inner_param[1] # <<0, 0>>
  /\ inner_param[2] # inner_param[1]
  /\ core_mat[1] = core_row(inner_param[1])

\* C4: the stiffness matrix of a later iteration has that of every earlier
\* iteration as its leading principal submatrix
C4_LeadingSubmatrix ==
  \A k1 \in 1..Len(stiffmats) : \A k2 \in 1..Len(stiffmats) :
    k1 < k2 =>
      /\ Len(stiffmats[k1]) = k1
      /\ \A i \in 1..k1 : \A j \in 1..k1 :
           stiffmats[k2][i][j] = stiffmats[k1][i][j]

C4_Witness ==
  /\ Len(stiffmats) >= 3
  /\ stiffmats[3][1][1] # 0
  /\ stiffmats[3][3][3] # stiffmats[3][1][1]

\* C5: the stiffness matrix get_stiffmat_and_rhs returns is symmetric,
\* whatever parameters, core matrix, weights and area it is called with
C5_Symmetric ==
  pc = "called" =>
    \A i \in 1..Len(system[1]) : \A j \in 1..Len(system[1]) :
      system[1][i][j] = system[1][j][i]

C5_Witness ==
  /\ pc = "called"
  /\ Len(system[1]) >= 2
  /\ system[1][1][2] # 0
  /\ weights[1] # weights[2]
  /\ inner_param[1] # inner_param[2]

\* C6: when the linear solve fails in iteration k, neither update_neurons nor
\* update_solution of that iteration runs, and the caller still holds the
\* error entries recorded for iterations 0..k
C6_PartialHistoryInspectable ==
  pc = "raised" =>
    /\ \A i \in 1..Len(calls) :
         calls[i] \notin {<<"update_neurons", k>>, <<"update_solution", k>>}
    /\ "errl2_record" \in DOMAIN result
    /\ "errh1_record" \in DOMAIN result
    /\ \A i \in 1..(k + 1) :
         /\ result.errl2_record[i] = errl2_record[i]
         /\ result.errh1_record[i] = errh1_record[i]

\* C7: the function pre_solution holds is the one the last update_solution
\* installed (the zero function before the first): no other step changes it
C7_ChangesOnlyAtUpdateSolution == pre_solution_func = tracked

\* C8: quadrature.quadpts never has its differentiation flag changed, and
\* energy.quadpts does not require grad after a call has returned
C8_QuadratureUntouched ==
  /\ quadrature_requires_grad = FALSE
  /\ self_requires_grad = FALSE

\* the square of a fraction
square(r) == Rat(r[1] * r[1], r[2] * r[2])

errors_of_first(m, l2, h1) ==
  IF m = 0
    THEN \A errors \in {_energy_norm(error_of(_zero))} :
           l2 = sqrt(errors[1]) /\ h1 = sqrt(errors[2])
    ELSE \A sys \in {get_stiffmat_and_rhs(SubSeq(inner_param, 1, m),
                                          SubSeq(core_mat, 1, m))} :
           \A coef \in {solve(sys[1], sys[2])} :
             \A u \in {network(coef, [i \in 1..m |-> inner_param[i][1]],
                                     [i \in 1..m |-> inner_param[i][dim + 1]])} :
               \A errors \in {_energy_norm(error_of(u))} :
                 l2 = sqrt(errors[1]) /\ h1 = sqrt(errors[2])

\* C10: error entry k is the error of the approximation built from the first
\* k selected neurons (entry 0 that of the zero function); the returned
\* sequences end with entry num_neurons - 1, so the error of the returned
\* network of num_neurons neurons is in neither
C10_EntryIsErrorBeforeIteration ==
  /\ \A i \in 1..num_epochs :
       written.l2[i] # <<>> =>
         errors_of_first(i - 1, errl2_record[i], errh1_record[i])
  /\ pc = "done" =>
       /\ result.errl2_record = errl2_record
       /\ result.errh1_record = errh1_record
       /\ DOMAIN result.errl2_record = 1..num_epochs
       /\ Len(result.snn.w2.num) = num_epochs

C10_Witness ==
  /\ pc = "done"
  /\ num_epochs >= 2
  /\ errl2_record[2] # errl2_record[1]
  /\ errh1_record[2] # errh1_record[1]

====
